---- MODULE Spec2Model ----
(***************************************************************************)
(* Model of the publish verifier of the api-server:                        *)
(* getMissingFilesForRootFiles (directory snapshot, recursive reference    *)
(* resolver, commit / rollback coordinator).                               *)
(*                                                                         *)
(* File names are strings.  The directory is a function from the names of  *)
(* the files that are present to their content; the content of a file is   *)
(* either unparseable or the list of the values of its refs mapping.       *)
(* JavaScript Sets are sequences without duplicates (insertion order).     *)
(***************************************************************************)
EXTENDS Integers, Sequences, FiniteSets, TLC

VARIABLES
  disk,             \* the directory: [present names -> content]
  disk0,            \* the directory when the call was made (never changes)
  fileNames,        \* parameter: the root list
  saveQueryParam,   \* parameter: the policy
  tempFileSuffix,   \* parameter: the temp suffix
  pc,               \* position of the call
  existingFiles,    \* the snapshot Set of getExistingFiles, renamed in place by the commit
  call,             \* arguments of the resolver invocation about to start
  stack,            \* frames of the resolver invocations in progress, outermost first
  chunks,           \* fileNamesToReadChunked not yet read, of the innermost frame
  allRefs,          \* allReferencedFileNames of the innermost frame
  readFiles,        \* stats.readFiles
  inFlight,         \* number of manifest reads issued and not yet settled
  result,           \* the MissingFilesResult returned by the last finished invocation
  referencedFiles,  \* the Set referencedFiles of the commit
  ops,              \* the renames / unlinks of the current batch, in issue order
  opsDone,          \* indices of the operations of the batch that have settled
  opsFailed,        \* indices of the operations of the batch that have rejected
  error             \* why the call failed, "none" otherwise

vars == <<disk, disk0, fileNames, saveQueryParam, tempFileSuffix, pc, existingFiles,
          call, stack, chunks, allRefs, readFiles, inFlight, result, referencedFiles,
          ops, opsDone, opsFailed, error>>

----------------------------------------------------------------------------
(* Bounds of the model *)

MaxRoots == 2     \* longest root list
MaxChain == 12    \* longest reference chain (number of manifests)
MaxWide == 51     \* most manifests referenced by one manifest

(* Program constants *)

MaxLevel == 10    \* if (level > 10)
ChunkSize == 50   \* chunkArrayInGroups(fileNamesToRead, 50)

----------------------------------------------------------------------------
(* Generic helpers *)

Range(s) == {s[i] : i \in 1..Len(s)}

Min(a, b) == IF a < b THEN a ELSE b

NoDup(s) == \A i, j \in 1..Len(s) : i # j => s[i] # s[j]

\* the concatenation of a list of lists (by halves, to keep the evaluation shallow)
RECURSIVE Flatten(_)
Flatten(ss) ==
  IF ss = <<>> THEN <<>>
  ELSE IF Len(ss) = 1 THEN ss[1]
  ELSE Flatten(SubSeq(ss, 1, Len(ss) \div 2))
         \o Flatten(SubSeq(ss, Len(ss) \div 2 + 1, Len(ss)))

\* Set.add on an insertion-ordered Set
SetAdd(s, x) == IF x \in Range(s) THEN s ELSE Append(s, x)

\* Set.add of every element of xs, in order: s, then the elements of xs that are
\* not in s, at their first occurrence
SetAddAll(s, xs) ==
  LET new == SelectSeq([i \in 1..Len(xs) |-> i],
                       LAMBDA i : xs[i] \notin Range(s)
                                  /\ \A j \in 1..(i - 1) : xs[j] # xs[i])
  IN s \o [k \in 1..Len(new) |-> xs[new[k]]]

\* Array.from of a Set whose order the model does not track
RECURSIVE SetToSeq(_)
SetToSeq(S) == IF S = {} THEN <<>>
               ELSE LET x == CHOOSE y \in S : TRUE IN <<x>> \o SetToSeq(S \ {x})

----------------------------------------------------------------------------
(* Strings *)

\* String.prototype.endsWith
EndsWith(s, suffix) ==
  /\ Len(s) >= Len(suffix)
  /\ SubSeq(s, Len(s) - Len(suffix) + 1, Len(s)) = suffix

\* fileName.endsWith(".json")
IsManifestName(fileName) == EndsWith(fileName, ".json")

\* file.substr(0, file.length - tempFileSuffix.length): a negative length gives ""
NewName(file, suffix) ==
  IF Len(file) > Len(suffix) THEN SubSeq(file, 1, Len(file) - Len(suffix)) ELSE ""

----------------------------------------------------------------------------
(* File contents *)

File(refs) == [ok |-> TRUE, refs |-> refs]
Unparseable == [ok |-> FALSE, refs |-> <<>>]

\* (content.refs && Object.values(content.refs)) || []
RefsOf(d, fileName) == d[fileName].refs

----------------------------------------------------------------------------
(* The resolver, getMissingFilesRecursive *)

\* variant: the bound compared with >= instead of >
TooDeepLevel_OffByOne(level) == level >= MaxLevel

\* level > 10
TooDeepLevel(level) == level > MaxLevel

\* the Set fileNamesWithRefs: present and manifest-typed, in first-occurrence order
FileNamesWithRefs(existing, names) ==
  SetAddAll(<<>>, SelectSeq(names, LAMBDA n : n \in existing /\ IsManifestName(n)))

\* variant: the else branch attached to the endsWith test instead of the has test
FileNamesThatAreMissing_ElseOnInner(existing, names) ==
  SetAddAll(<<>>, SelectSeq(names, LAMBDA n : n \in existing /\ ~IsManifestName(n)))

\* the Set fileNamesThatAreMissing: absent from the snapshot, in first-occurrence order
FileNamesThatAreMissing(existing, names) ==
  SetAddAll(<<>>, SelectSeq(names, LAMBDA n : n \notin existing))

\* variant: the array handed over as a single group
chunkArrayInGroups_Whole(arr, size) == IF arr = <<>> THEN <<>> ELSE <<arr>>

\* the array cut into groups of size, the last one shorter
RECURSIVE chunkArrayInGroups(_, _)
chunkArrayInGroups(arr, size) ==
  IF arr = <<>> THEN <<>>
  ELSE <<SubSeq(arr, 1, Min(size, Len(arr)))>>
         \o chunkArrayInGroups(SubSeq(arr, Min(size, Len(arr)) + 1, Len(arr)), size)

\* the referenced names of one chunk, in chunk order, added to allReferencedFileNames
AddChunkRefs(refs, d, chunk) ==
  SetAddAll(refs, Flatten([i \in 1..Len(chunk) |-> RefsOf(d, chunk[i])]))

\* variant: a parse error is swallowed and the file counts as having no refs
ChunkUnreadable_Swallowed(d, chunk) == FALSE

\* JSON.parse (or the refs access) throws for some file of the chunk
ChunkUnreadable(d, chunk) == \E i \in 1..Len(chunk) : ~d[chunk[i]].ok

NoResult == [missingFiles |-> <<>>, referencedFiles |-> <<>>]

\* variant: this level's lists put before the child's
MergeResult_ParentFirst(child, frame) ==
  [missingFiles    |-> frame.missing \o child.missingFiles,
   referencedFiles |-> frame.fileNames \o child.referencedFiles]

\* variant: only the names this level found missing are kept as referenced
MergeResult_MissingOnly(child, frame) ==
  [missingFiles    |-> child.missingFiles \o frame.missing,
   referencedFiles |-> child.referencedFiles \o frame.missing]

\* the value returned by an invocation, from its child's result and its own frame
MergeResult(child, frame) ==
  [missingFiles    |-> child.missingFiles \o frame.missing,
   referencedFiles |-> child.referencedFiles \o frame.fileNames]

----------------------------------------------------------------------------
(* The coordinator *)

\* variant: the policy only tested for being given
IsSavePolicy_Truthy(policy) == Len(policy) > 0

\* saveQueryParam === "ifcomplete" || saveQueryParam === "no"
IsSavePolicy(policy) == policy = "ifcomplete" \/ policy = "no"

\* variant: the commit not conditioned on the missing-file list
IsCommit_IgnoresMissing(policy, missingFiles) == policy = "ifcomplete"

\* saveQueryParam === "ifcomplete" && missingFiles.length === 0
IsCommit(policy, missingFiles) == policy = "ifcomplete" /\ Len(missingFiles) = 0

\* the delete / add pairs the rename loop applies to one of its Sets, in root order
RECURSIVE RenameInSet(_, _, _)
RenameInSet(S, names, suffix) ==
  IF names = <<>> THEN S
  ELSE RenameInSet((S \ {Head(names)}) \cup {NewName(Head(names), suffix)},
                   Tail(names), suffix)

\* variant: the arguments taken the other way round
difference_Swapped(setA, setB) == setB \ setA

difference(setA, setB) == setA \ setB

RenameOp(file, suffix) == [kind |-> "rename", from |-> file, to |-> NewName(file, suffix)]
UnlinkOp(file) == [kind |-> "unlink", from |-> file, to |-> ""]

RenameOps(names, suffix) == [i \in 1..Len(names) |-> RenameOp(names[i], suffix)]
UnlinkOps(names) == [i \in 1..Len(names) |-> UnlinkOp(names[i])]

\* fs.rename / fs.unlink reject: the source is absent, or the target of a rename is
\* the directory itself (path.join(filesPath, ""))
OpRejects(d, op) ==
  \/ op.from \notin DOMAIN d
  \/ op.kind = "rename" /\ op.to = ""

\* the directory after a rename or unlink that succeeds
ApplyOp(d, op) ==
  IF op.kind = "unlink" THEN [n \in DOMAIN d \ {op.from} |-> d[n]]
  ELSE IF op.to = op.from THEN d
  ELSE [n \in (DOMAIN d \ {op.from}) \cup {op.to} |->
          IF n = op.to THEN d[op.from] ELSE d[n]]

----------------------------------------------------------------------------
(* Inputs *)

StagedRoot == "r.json.tmp"
PermRoot   == "r.json"
ManifestA  == "a.json"
BlobB      == "b"
SideName   == "x.json"

SmallNames == {StagedRoot, PermRoot, ManifestA, BlobB}
RootNames  == {StagedRoot, PermRoot, ManifestA}
RefTargets == {ManifestA, BlobB}

\* every duplicate-free list of reference targets
RefLists ==
  UNION {{s \in [1..n -> RefTargets] : NoDup(s)} : n \in 0..Cardinality(RefTargets)}

\* the staged root stages a manifest; the permanent root holds any list of
\* references; a.json references nothing, the blob or itself
ContentsOf(name) ==
  IF name = BlobB THEN {File(<<>>)}
  ELSE IF name = StagedRoot THEN {File(<<>>), File(<<ManifestA, BlobB>>)}
  ELSE IF name = ManifestA
       THEN {File(<<>>), File(<<BlobB>>), File(<<ManifestA>>), Unparseable}
       ELSE {File(l) : l \in RefLists} \cup {Unparseable}

AllContents == UNION {ContentsOf(n) : n \in SmallNames}

SmallDirs ==
  UNION {{d \in [present -> AllContents] : \A n \in present : d[n] \in ContentsOf(n)}
           : present \in SUBSET SmallNames}

RootLists == UNION {[1..n -> RootNames] : n \in 0..MaxRoots}

SmallInputs == {[dir |-> d, roots |-> r] : d \in SmallDirs, r \in RootLists}

\* chains m0.json -> m1.json -> ... of k manifests
ChainName(i) == "m" \o ToString(i) \o ".json"

ChainTails == {"end", "missing", "cycle", "bad"}

ChainContent(i, k, tail, side) ==
  IF i < k - 1
  THEN File(<<ChainName(i + 1)>> \o (IF side /\ i = 0 THEN <<SideName>> ELSE <<>>))
  ELSE IF tail = "bad" THEN Unparseable
  ELSE File((CASE tail = "end" -> <<>>
               [] tail = "missing" -> <<BlobB>>
               [] tail = "cycle" -> <<ChainName(0)>>)
            \o (IF side /\ i = 0 THEN <<SideName>> ELSE <<>>))

ChainDir(k, tail, side) ==
  [n \in {ChainName(i) : i \in 0..(k - 1)} \cup (IF side THEN {SideName} ELSE {}) |->
     IF n = SideName THEN Unparseable
     ELSE ChainContent(CHOOSE i \in 0..(k - 1) : ChainName(i) = n, k, tail, side)]

ChainInputs ==
  {[dir |-> ChainDir(k, tail, side), roots |-> <<ChainName(0)>>]
     : k \in 1..MaxChain, tail \in ChainTails, side \in BOOLEAN}

\* r.json references n manifests w1.json, ..., each of which references the blob
WideName(i) == "w" \o ToString(i) \o ".json"

WideDir(n) ==
  [f \in {PermRoot} \cup {WideName(i) : i \in 1..n} |->
     IF f = PermRoot THEN File([i \in 1..n |-> WideName(i)]) ELSE File(<<BlobB>>)]

WideInputs ==
  {[dir |-> WideDir(n), roots |-> <<PermRoot>>] : n \in {ChunkSize, MaxWide}}

Inputs == SmallInputs \cup ChainInputs

Policies == {"ifcomplete", "no", "verify"}
Suffixes == {"", ".tmp"}

----------------------------------------------------------------------------
(* The call *)

\* the call is made on one of the given inputs, under any policy and suffix
InitFrom(inputs) ==
  \E in \in inputs, policy \in Policies, suffix \in Suffixes :
    /\ disk = in.dir
    /\ disk0 = in.dir
    /\ fileNames = in.roots
    /\ saveQueryParam = policy
    /\ tempFileSuffix = suffix
    /\ pc = "start"
    /\ existingFiles = {}
    /\ call = [fileNames |-> <<>>, level |-> 0]
    /\ stack = <<>>
    /\ chunks = <<>>
    /\ allRefs = <<>>
    /\ readFiles = 0
    /\ inFlight = 0
    /\ result = NoResult
    /\ referencedFiles = {}
    /\ ops = <<>>
    /\ opsDone = {}
    /\ opsFailed = {}
    /\ error = "none"

Init == InitFrom(Inputs)

inputVars == <<disk0, fileNames, saveQueryParam, tempFileSuffix>>
resolverVars == <<call, stack, chunks, allRefs, readFiles, inFlight, result>>
batchVars == <<ops, opsDone, opsFailed>>

\* getExistingFiles, then the first resolver invocation
Snapshot ==
  /\ pc = "start"
  /\ existingFiles' = DOMAIN disk
  /\ call' = [fileNames |-> fileNames, level |-> 0]
  /\ pc' = "call"
  /\ UNCHANGED <<disk, inputVars, stack, chunks, allRefs, readFiles, inFlight, result,
                 referencedFiles, batchVars, error>>

\* an invocation beyond the depth bound throws
TooDeep ==
  /\ pc = "call"
  /\ TooDeepLevel(call.level)
  /\ pc' = "failed"
  /\ error' = "TooDeep"
  /\ UNCHANGED <<disk, inputVars, existingFiles, resolverVars, referencedFiles, batchVars>>

\* an invocation starts: partition its input, chunk the manifests to read
Enter ==
  /\ pc = "call"
  /\ ~TooDeepLevel(call.level)
  /\ stack' = Append(stack, [level     |-> call.level,
                             fileNames |-> call.fileNames,
                             missing   |-> FileNamesThatAreMissing(existingFiles,
                                                                   call.fileNames)])
  /\ chunks' = chunkArrayInGroups(FileNamesWithRefs(existingFiles, call.fileNames),
                                  ChunkSize)
  /\ allRefs' = <<>>
  /\ pc' = "read"
  /\ UNCHANGED <<disk, inputVars, existingFiles, call, readFiles, inFlight, result,
                 referencedFiles, batchVars, error>>

\* the reads of the next chunk are issued together: chunk.map(readFileWithRefs)
IssueReads ==
  /\ pc = "read"
  /\ chunks # <<>>
  /\ inFlight' = Len(Head(chunks))
  /\ pc' = "reading"
  /\ UNCHANGED <<disk, inputVars, existingFiles, call, stack, chunks, allRefs,
                 readFiles, result, referencedFiles, batchVars, error>>

\* one issued read settles without failing the call: it resolves, or the call has
\* failed already and its outcome is dropped.  Reads settle in any order and are
\* counted, not named; in a chunk that holds an unparseable manifest the last
\* read left is one that rejects.
ReadCompletes ==
  /\ inFlight > 0
  /\ \/ pc = "failed"
     \/ pc = "reading" /\ (inFlight > 1 \/ ~ChunkUnreadable(disk, Head(chunks)))
  /\ inFlight' = inFlight - 1
  /\ UNCHANGED <<disk, inputVars, pc, existingFiles, call, stack, chunks, allRefs,
                 readFiles, result, referencedFiles, batchVars, error>>

\* every read of the chunk resolved: await Promise.all(chunkPromises) returns,
\* the chunk is counted and its references are collected
ReadChunk ==
  /\ pc = "reading"
  /\ inFlight = 0
  /\ ~ChunkUnreadable(disk, Head(chunks))
  /\ allRefs' = AddChunkRefs(allRefs, disk, Head(chunks))
  /\ readFiles' = readFiles + Len(Head(chunks))
  /\ chunks' = Tail(chunks)
  /\ pc' = "read"
  /\ UNCHANGED <<disk, inputVars, existingFiles, call, stack, inFlight, result,
                 referencedFiles, batchVars, error>>

\* variant: a failed read is answered by deleting the roots
ReadFails_Rollback ==
  /\ pc = "reading"
  /\ inFlight > 0
  /\ ChunkUnreadable(disk, Head(chunks))
  /\ inFlight' = inFlight - 1
  /\ error' = "ReadError"
  /\ ops' = UnlinkOps(fileNames)
  /\ opsDone' = {}
  /\ opsFailed' = {}
  /\ pc' = "failed"
  /\ UNCHANGED <<disk, inputVars, existingFiles, call, stack, chunks, allRefs,
                 readFiles, result, referencedFiles>>

\* the read of a manifest that does not parse rejects: Promise.all rejects and
\* the traversal throws
ReadFails ==
  /\ pc = "reading"
  /\ inFlight > 0
  /\ ChunkUnreadable(disk, Head(chunks))
  /\ inFlight' = inFlight - 1
  /\ pc' = "failed"
  /\ error' = "ReadError"
  /\ UNCHANGED <<disk, inputVars, existingFiles, call, stack, chunks, allRefs,
                 readFiles, result, referencedFiles, batchVars>>

\* variant: the child invoked with the level of its parent
Recurse_SameLevel ==
  /\ pc = "read"
  /\ chunks = <<>>
  /\ Len(allRefs) > 0
  /\ call' = [fileNames |-> allRefs, level |-> stack[Len(stack)].level]
  /\ pc' = "call"
  /\ UNCHANGED <<disk, inputVars, existingFiles, stack, chunks, allRefs, readFiles,
                 inFlight, result, referencedFiles, batchVars, error>>

\* every chunk is read and something is referenced: recurse
Recurse ==
  /\ pc = "read"
  /\ chunks = <<>>
  /\ Len(allRefs) > 0
  /\ call' = [fileNames |-> allRefs, level |-> stack[Len(stack)].level + 1]
  /\ pc' = "call"
  /\ UNCHANGED <<disk, inputVars, existingFiles, stack, chunks, allRefs, readFiles,
                 inFlight, result, referencedFiles, batchVars, error>>

\* every chunk is read and nothing is referenced: the child result is empty
NoRecurse ==
  /\ pc = "read"
  /\ chunks = <<>>
  /\ Len(allRefs) = 0
  /\ result' = NoResult
  /\ pc' = "return"
  /\ UNCHANGED <<disk, inputVars, existingFiles, call, stack, chunks, allRefs,
                 readFiles, inFlight, referencedFiles, batchVars, error>>

\* the innermost invocation returns its merged result
Return ==
  /\ pc = "return"
  /\ result' = MergeResult(result, stack[Len(stack)])
  /\ stack' = SubSeq(stack, 1, Len(stack) - 1)
  /\ pc' = IF Len(stack) = 1 THEN "coordinate" ELSE "return"
  /\ UNCHANGED <<disk, inputVars, existingFiles, call, chunks, allRefs, readFiles,
                 inFlight, referencedFiles, batchVars, error>>

\* commit: rename in the Sets, issue every rename
Commit ==
  /\ pc = "coordinate"
  /\ IsSavePolicy(saveQueryParam)
  /\ IsCommit(saveQueryParam, result.missingFiles)
  /\ referencedFiles' = RenameInSet(Range(result.referencedFiles), fileNames,
                                    tempFileSuffix)
  /\ existingFiles' = RenameInSet(existingFiles, fileNames, tempFileSuffix)
  /\ ops' = RenameOps(fileNames, tempFileSuffix)
  /\ opsDone' = {}
  /\ opsFailed' = {}
  /\ pc' = "renaming"
  /\ UNCHANGED <<disk, inputVars, resolverVars, error>>

\* rollback: issue the unlink of every root
Rollback ==
  /\ pc = "coordinate"
  /\ IsSavePolicy(saveQueryParam)
  /\ ~IsCommit(saveQueryParam, result.missingFiles)
  /\ ops' = UnlinkOps(fileNames)
  /\ opsDone' = {}
  /\ opsFailed' = {}
  /\ pc' = "deleting"
  /\ UNCHANGED <<disk, inputVars, existingFiles, resolverVars, referencedFiles, error>>

\* any other policy: return the list
VerifyOnly ==
  /\ pc = "coordinate"
  /\ ~IsSavePolicy(saveQueryParam)
  /\ pc' = "returned"
  /\ UNCHANGED <<disk, inputVars, existingFiles, resolverVars, referencedFiles,
                 batchVars, error>>

Awaiting == {"renaming", "pruning", "deleting"}

\* an issued rename or unlink completes
OpCompletes(i) ==
  /\ i \in (DOMAIN ops) \ opsDone
  /\ ~OpRejects(disk, ops[i])
  /\ disk' = ApplyOp(disk, ops[i])
  /\ opsDone' = opsDone \cup {i}
  /\ UNCHANGED <<inputVars, pc, existingFiles, resolverVars, referencedFiles, ops,
                 opsFailed, error>>

\* variant: a rejection is collected, not thrown (Promise.allSettled)
OpFails_Settled(i) ==
  /\ i \in (DOMAIN ops) \ opsDone
  /\ OpRejects(disk, ops[i])
  /\ opsDone' = opsDone \cup {i}
  /\ opsFailed' = opsFailed \cup {i}
  /\ UNCHANGED <<disk, inputVars, pc, existingFiles, resolverVars, referencedFiles, ops,
                 error>>

\* an issued rename or unlink rejects: Promise.all rejects and the call throws
OpFails(i) ==
  /\ i \in (DOMAIN ops) \ opsDone
  /\ OpRejects(disk, ops[i])
  /\ opsDone' = opsDone \cup {i}
  /\ opsFailed' = opsFailed \cup {i}
  /\ pc' = IF pc \in Awaiting THEN "failed" ELSE pc
  /\ error' = IF pc \in Awaiting THEN "IOError" ELSE error
  /\ UNCHANGED <<disk, inputVars, existingFiles, resolverVars, referencedFiles, ops>>

\* variant: the orphans are deleted without awaiting the renames
Prune_Early ==
  /\ pc = "renaming"
  /\ ops' = UnlinkOps(SetToSeq(difference(existingFiles, referencedFiles)))
  /\ opsDone' = {}
  /\ opsFailed' = {}
  /\ pc' = "pruning"
  /\ UNCHANGED <<disk, inputVars, existingFiles, resolverVars, referencedFiles, error>>

\* every rename resolved: issue the unlink of every orphan
Prune ==
  /\ pc = "renaming"
  /\ opsDone = DOMAIN ops
  /\ ops' = UnlinkOps(SetToSeq(difference(existingFiles, referencedFiles)))
  /\ opsDone' = {}
  /\ opsFailed' = {}
  /\ pc' = "pruning"
  /\ UNCHANGED <<disk, inputVars, existingFiles, resolverVars, referencedFiles, error>>

\* the last batch resolved: return the list
Finish ==
  /\ pc \in {"pruning", "deleting"}
  /\ opsDone = DOMAIN ops
  /\ pc' = "returned"
  /\ UNCHANGED <<disk, inputVars, existingFiles, resolverVars, referencedFiles,
                 batchVars, error>>

Next ==
  \/ Snapshot
  \/ TooDeep
  \/ Enter
  \/ IssueReads
  \/ ReadCompletes
  \/ ReadChunk
  \/ ReadFails
  \/ Recurse
  \/ NoRecurse
  \/ Return
  \/ Commit
  \/ Rollback
  \/ VerifyOnly
  \/ \E i \in DOMAIN ops : OpCompletes(i)
  \/ \E i \in DOMAIN ops : OpFails(i)
  \/ Prune
  \/ Finish

Spec == Init /\ [][Next]_vars

----------------------------------------------------------------------------
(* The call on a file system whose operations can fail for reasons of their own
   (permissions, I/O errors), whatever the directory holds *)

\* fs.readdir rejects: the call throws before anything is read
SnapshotFaults ==
  /\ pc = "start"
  /\ pc' = "failed"
  /\ error' = "SnapshotError"
  /\ UNCHANGED <<disk, inputVars, existingFiles, resolverVars, referencedFiles, batchVars>>

\* fs.readFile of an issued read rejects: Promise.all rejects and the traversal throws
ReadFaults ==
  /\ pc = "reading"
  /\ inFlight > 0
  /\ inFlight' = inFlight - 1
  /\ pc' = "failed"
  /\ error' = "ReadError"
  /\ UNCHANGED <<disk, inputVars, existingFiles, call, stack, chunks, allRefs,
                 readFiles, result, referencedFiles, batchVars>>

\* fs.rename / fs.unlink of an issued operation rejects though its source is
\* there: Promise.all rejects and the call throws
OpFaults(i) ==
  /\ i \in (DOMAIN ops) \ opsDone
  /\ ~OpRejects(disk, ops[i])
  /\ opsDone' = opsDone \cup {i}
  /\ opsFailed' = opsFailed \cup {i}
  /\ pc' = IF pc \in Awaiting THEN "failed" ELSE pc
  /\ error' = IF pc \in Awaiting THEN "IOError" ELSE error
  /\ UNCHANGED <<disk, inputVars, existingFiles, resolverVars, referencedFiles, ops>>

NextFaults ==
  \/ Next
  \/ SnapshotFaults
  \/ ReadFaults
  \/ \E i \in DOMAIN ops : OpFaults(i)

SpecFaults == Init /\ [][NextFaults]_vars

\* the same call, made on the wide directories as well
InitWide == InitFrom(Inputs \cup WideInputs)

SpecWide == InitWide /\ [][NextFaults]_vars

\* the inputs of the calls whose whole behaviours are checked: every chain, and
\* the small directories under at most one root
LiveInputs == ChainInputs \cup {in \in SmallInputs : Len(in.roots) <= 1}

InitLive == InitFrom(LiveInputs)

\* every step the call can take is eventually taken: the runtime runs the call's
\* continuations, and every issued read, rename and unlink settles
FairSpec == InitLive /\ [][NextFaults]_vars /\ WF_vars(NextFaults)

----------------------------------------------------------------------------
(* The reference graph of a directory, as the claims speak of it *)

\* the names referenced by the files of S that are present and manifest-typed
Children(d, S) ==
  UNION {Range(d[n].refs) : n \in {m \in S \cap DOMAIN d : IsManifestName(m)}}

\* the names reachable from S, S included
RECURSIVE Closure(_, _)
Closure(d, S) ==
  LET T == S \cup Children(d, S) IN IF T = S THEN S ELSE Closure(d, T)

\* the names that are k references away from the roots
RECURSIVE LevelSet(_, _, _)
LevelSet(d, S, k) == IF k = 0 THEN S ELSE LevelSet(d, Children(d, S), k - 1)

\* acyclic and within the depth bound: nothing is MaxLevel + 1 references away
WithinDepth(d, roots) == LevelSet(d, Range(roots), MaxLevel + 1) = {}

\* the number of resolver invocations the graph asks for (levels 0, 1, ...),
\* counted up to MaxLevel + 2
RECURSIVE LevelsFrom(_, _, _)
LevelsFrom(d, S, k) ==
  IF k > MaxLevel \/ Children(d, S) = {} THEN k + 1
  ELSE LevelsFrom(d, Children(d, S), k + 1)

NumLevels(d, roots) == LevelsFrom(d, Range(roots), 0)

\* some manifest that levels 0..k would read does not parse
UnparseableWithin(d, roots, k) ==
  \E j \in 0..k : \E n \in LevelSet(d, Range(roots), j) \cap DOMAIN d :
    IsManifestName(n) /\ ~d[n].ok

\* a present manifest reachable from the roots is reachable from itself
CycleReachable(d, roots) ==
  \E n \in Closure(d, Range(roots)) \cap DOMAIN d :
    IsManifestName(n) /\ n \in Closure(d, Children(d, {n}))

\* the resolver has returned to the coordinator
Resolved ==
  \/ pc \in {"coordinate", "renaming", "pruning", "deleting", "returned"}
  \/ pc = "failed" /\ error = "IOError"

\* the call has returned or thrown and nothing it issued is still in flight
Settled == pc \in {"returned", "failed"} /\ opsDone = DOMAIN ops

Roots == Range(fileNames)

----------------------------------------------------------------------------
(* C1: for a store that is acyclic and within the depth bound, the names of the
   missing-file list are exactly the names reachable from the roots (roots
   included, following the refs of present manifest-typed files) that are absent
   from the directory snapshot. *)
C1_MissingExact ==
  (Resolved /\ WithinDepth(disk0, fileNames)) =>
    Range(result.missingFiles) = {n \in Closure(disk0, Roots) : n \notin DOMAIN disk0}

\* a returned list with a missing name two references away from a present root,
\* while a present reachable name and an absent unreachable name are not reported
C1_Witness ==
  /\ pc = "returned"
  /\ fileNames = <<PermRoot>>
  /\ DOMAIN disk0 = {PermRoot, ManifestA}
  /\ disk0[PermRoot] = File(<<ManifestA>>)
  /\ disk0[ManifestA] = File(<<BlobB>>)
  /\ result.missingFiles = <<BlobB>>

(* C3: under policy 'no', or 'ifcomplete' with a non-empty missing-file list, once
   resolution has completed the call only unlinks the roots: when everything it
   issued has completed no root name is in the directory, and at every moment
   every other file is present with its content and nothing is renamed; also
   when some roots are absent from the directory. *)
C3_Rollback ==
  (Resolved /\ (saveQueryParam = "no"
                \/ (saveQueryParam = "ifcomplete" /\ Len(result.missingFiles) > 0))) =>
    /\ pc \notin {"renaming", "pruning"}
    /\ \A n \in DOMAIN disk : n \in DOMAIN disk0 /\ disk[n] = disk0[n]
    /\ \A n \in DOMAIN disk0 \ Roots : n \in DOMAIN disk
    /\ pc # "coordinate" => ops = UnlinkOps(fileNames)
    /\ Settled => \A r \in Roots : r \notin DOMAIN disk

\* a settled rollback with a root that was absent, a root that was deleted and a
\* file that is no root
C3_Witness ==
  /\ Settled
  /\ saveQueryParam = "ifcomplete"
  /\ Len(result.missingFiles) > 0
  /\ \E r \in Roots : r \notin DOMAIN disk0
  /\ \E r \in Roots : r \in DOMAIN disk0 /\ r \notin DOMAIN disk
  /\ \E n \in DOMAIN disk : n \notin Roots

(* C4: for a policy other than 'ifcomplete' and 'no' no rename and no unlink is
   ever issued and the directory stays what it was, whether the call returns or
   fails. *)
C4_VerifyOnly ==
  (saveQueryParam # "ifcomplete" /\ saveQueryParam # "no") =>
    /\ disk = disk0
    /\ ops = <<>>
    /\ pc \notin Awaiting

\* a verify-only call that returned a non-empty list about a non-empty directory
C4_Witness ==
  /\ saveQueryParam = "verify"
  /\ pc = "returned"
  /\ Len(result.missingFiles) > 0
  /\ DOMAIN disk0 # {}
  /\ \E r \in Roots : r \in DOMAIN disk0

----------------------------------------------------------------------------
(* Commits as the claims speak of them *)

PermNames == {NewName(r, tempFileSuffix) : r \in Roots}

\* every root carries the suffix, no root is listed twice, and no permanent name
\* is the staged name of another root
PlainRoots ==
  /\ NoDup(fileNames)
  /\ \A r \in Roots : EndsWith(r, tempFileSuffix)
  /\ \A r, q \in Roots : r # q => NewName(r, tempFileSuffix) # q

\* the directory when every rename of the roots has been done, in root order
RECURSIVE AfterRenames(_, _, _)
AfterRenames(d, names, suffix) ==
  IF names = <<>> THEN d
  ELSE AfterRenames(IF OpRejects(d, RenameOp(Head(names), suffix)) THEN d
                    ELSE ApplyOp(d, RenameOp(Head(names), suffix)),
                    Tail(names), suffix)

CommitReturned ==
  /\ saveQueryParam = "ifcomplete"
  /\ pc = "returned"
  /\ Len(result.missingFiles) = 0

(* C2: after a commit that completes without error every root has been renamed
   to its name without the suffix, every file of the directory that is not
   reachable from the renamed roots has been deleted, and every file that is
   reachable from the renamed roots still exists. *)
C2_CommitExact ==
  (CommitReturned /\ PlainRoots) =>
    LET post == AfterRenames(disk0, fileNames, tempFileSuffix)
        keep == Closure(post, PermNames)
    IN /\ \A r \in Roots :
            /\ NewName(r, tempFileSuffix) \in DOMAIN disk
            /\ disk[NewName(r, tempFileSuffix)] = disk0[r]
            /\ r \in DOMAIN disk => r \in PermNames
       /\ \A n \in DOMAIN disk0 : n \notin keep => n \notin DOMAIN disk
       /\ \A n \in keep \cap DOMAIN post : n \in DOMAIN disk /\ disk[n] = post[n]

\* the names reachable from the roots when a staged root (a manifest name followed
\* by the suffix) is read as the manifest it stages
RECURSIVE StagedClosure(_, _, _)
StagedClosure(d, S, staged) ==
  LET T == S \cup Children(d, S)
             \cup UNION {Range(d[n].refs) : n \in S \cap staged \cap DOMAIN d}
  IN IF T = S THEN S ELSE StagedClosure(d, T, staged)

StagedManifestRoots ==
  /\ fileNames # <<>>
  /\ Len(tempFileSuffix) > 0
  /\ PlainRoots
  /\ \A r \in Roots : r \in DOMAIN disk0 /\ disk0[r].ok
                      /\ IsManifestName(NewName(r, tempFileSuffix))

(* C5: a staged root named as a manifest name followed by the suffix is traversed
   as a manifest: under 'ifcomplete', when a name it references directly or
   transitively is absent (and everything it reaches parses), the call returns a
   list that contains the absent name, the staged root is deleted and every other
   file, the previous permanent root included, is untouched. *)
C5_StagedRootTraversed ==
  LET reach == StagedClosure(disk0, Roots, Roots) IN
  (/\ saveQueryParam = "ifcomplete"
   /\ StagedManifestRoots
   /\ \E n \in reach : n \notin DOMAIN disk0
   /\ \A n \in reach \cap DOMAIN disk0 : disk0[n].ok
   /\ ~CycleReachable(disk0, SetToSeq(reach))
   /\ Settled) =>
     /\ pc = "returned"
     /\ \A n \in reach : n \notin DOMAIN disk0 => n \in Range(result.missingFiles)
     /\ disk = [n \in DOMAIN disk0 \ Roots |-> disk0[n]]

(* C8: neither the missing-file list nor the referenced-file list of the resolver
   holds a name twice. *)
C8_NoDuplicates ==
  Resolved => NoDup(result.missingFiles) /\ NoDup(result.referencedFiles)

(* C9: whenever resolution completes without error the call returns the
   missing-file list, under every policy and for every directory. *)
C9_ListReturned ==
  Resolved => pc # "failed"

(* C10: after a commit that completes without error no staged root name remains,
   every permanent root exists, every name reachable from the permanent roots
   exists, and no file outside that closure remains. *)
C10_ConsistentStore ==
  (CommitReturned /\ PlainRoots) =>
    LET keep == Closure(disk, PermNames) IN
      /\ \A r \in Roots : r \notin PermNames => r \notin DOMAIN disk
      /\ PermNames \subseteq DOMAIN disk
      /\ keep \subseteq DOMAIN disk
      /\ DOMAIN disk \subseteq keep

----------------------------------------------------------------------------
(* Depth *)

Traversing == pc \in {"start", "call", "read", "reading", "return"}

(* C6, as claimed: a chain of 10 levels (the root call being the first) resolves,
   and a chain of 11 levels fails with the too-deep error without any rename or
   delete. *)
C6_AsClaimed ==
  LET n == NumLevels(disk0, fileNames) IN
    /\ n = 10 => error # "TooDeep"
    /\ n = 11 => /\ ~Resolved
                 /\ disk = disk0
                 /\ ops = <<>>

(* C6, amended: a graph of up to 11 levels (invocations at levels 0 to 10) whose
   manifests parse resolves, and a graph of 12 or more levels never does and no
   rename or delete is issued for it under any policy:
     - the too-deep error is raised only for a graph of 12 or more levels, and by
       the invocation at level 11;
     - the resolver returns, and an operation is issued or the directory differs,
       only for a graph of at most 11 levels;
     - the traversal fails otherwise only on an unparseable manifest among those
       levels 0 to 10 read;
     - the traversal never stops before it has failed or the resolver returned. *)
C6_DepthBoundary ==
  LET n == NumLevels(disk0, fileNames) IN
    /\ error = "TooDeep" => (n > MaxLevel + 1 /\ call.level = MaxLevel + 1)
    /\ (Resolved \/ disk # disk0 \/ ops # <<>>) => n <= MaxLevel + 1
    /\ error = "ReadError" => UnparseableWithin(disk0, fileNames, MaxLevel)
    /\ Traversing => ENABLED Next

\* a chain of exactly 11 manifests, read by the invocations at levels 0 to 10,
\* whose call returned
C6_Witness ==
  /\ disk0 = ChainDir(MaxLevel + 1, "end", FALSE)
  /\ NumLevels(disk0, fileNames) = MaxLevel + 1
  /\ readFiles = MaxLevel + 1
  /\ pc = "returned"

(* C7, as claimed: whenever a present manifest reachable from the roots is
   reachable from itself, the call fails with the too-deep error, returns no
   list and leaves the directory unchanged under every policy. *)
C7_AsClaimed ==
  CycleReachable(disk0, fileNames) =>
    /\ ~Resolved
    /\ disk = disk0
    /\ ops = <<>>
    /\ pc = "failed" => error = "TooDeep"

(* C7, amended: whenever a present manifest reachable from the roots is reachable
   from itself, the resolver never returns and no rename or delete is issued
   under any policy; the call fails with the too-deep error, raised by the
   invocation at level 11, unless one of the manifests read by levels 0 to 10 is
   unparseable, and then it fails with that read error. *)
C7_CycleFails ==
  LET cyclic == CycleReachable(disk0, fileNames) IN
    /\ (Resolved \/ disk # disk0 \/ ops # <<>>) => ~cyclic
    /\ (pc # "failed" /\ ~ENABLED Next) => ~cyclic
    /\ (pc = "failed" /\ cyclic) =>
         IF UnparseableWithin(disk0, fileNames, MaxLevel)
         THEN error = "ReadError"
         ELSE error = "TooDeep" /\ call.level = MaxLevel + 1

\* a cycle of two manifests under the commit policy: the call failed with the
\* too-deep error
C7_Witness ==
  /\ disk0 = ChainDir(2, "cycle", FALSE)
  /\ saveQueryParam = "ifcomplete"
  /\ CycleReachable(disk0, fileNames)
  /\ pc = "failed"
  /\ error = "TooDeep"

----------------------------------------------------------------------------
(* Order of the lists *)

\* the first occurrences of a list, in order
FirstOccurrences(s) ==
  LET first == SelectSeq([i \in 1..Len(s) |-> i],
                         LAMBDA i : \A j \in 1..(i - 1) : s[j] # s[i])
  IN [k \in 1..Len(first) |-> s[first[k]]]

\* the input of the level below a level whose input is names: what the present
\* manifests of names reference, manifests and references in first-occurrence order
LevelBelow(d, names) ==
  LET manifests == FirstOccurrences(
                     SelectSeq(names, LAMBDA n : n \in DOMAIN d /\ IsManifestName(n)))
  IN FirstOccurrences(Flatten([i \in 1..Len(manifests) |-> d[manifests[i]].refs]))

\* the input of level k
RECURSIVE LevelInput(_, _, _)
LevelInput(d, names, k) ==
  IF k = 0 THEN names ELSE LevelInput(d, LevelBelow(d, names), k - 1)

\* the names recorded missing at level k, in the order of their first occurrence
\* in that level's input
MissingAt(d, names, k) ==
  FirstOccurrences(SelectSeq(LevelInput(d, names, k), LAMBDA n : n \notin DOMAIN d))

\* the missing names of levels k, k - 1, ..., 0, in that order
RECURSIVE DeepestFirst(_, _, _)
DeepestFirst(d, names, k) ==
  MissingAt(d, names, k) \o (IF k = 0 THEN <<>> ELSE DeepestFirst(d, names, k - 1))

(* C11: the returned missing-file list is ordered deepest-first: the names
   recorded at a deeper level come before the names recorded at a shallower
   level, and the names recorded at one level keep the order in which they
   first occur in that level's input. *)
C11_DeepestFirst ==
  Resolved =>
    result.missingFiles =
      DeepestFirst(disk0, fileNames, NumLevels(disk0, fileNames) - 1)

\* a returned list with two names recorded at level 1, in the order of the refs,
\* before the absent root recorded at level 0
C11_Witness ==
  /\ pc = "returned"
  /\ fileNames = <<StagedRoot, PermRoot>>
  /\ DOMAIN disk0 = {PermRoot}
  /\ disk0[PermRoot] = File(<<BlobB, ManifestA>>)
  /\ result.missingFiles = <<BlobB, ManifestA, StagedRoot>>

(* C15: for a store that is acyclic and within the depth bound, the names of the
   resolver's referencedFiles are exactly the names reachable from the roots,
   roots included, present or absent, where only present manifest-typed files
   have outgoing references. *)
C15_ReferencedExact ==
  (Resolved /\ WithinDepth(disk0, fileNames)) =>
    Range(result.referencedFiles) = Closure(disk0, Roots)

\* a resolved call whose referenced names hold a present root, an absent root, a
\* present manifest one reference away and an absent blob two references away,
\* while a present file is not referenced
C15_Witness ==
  /\ Resolved
  /\ fileNames = <<PermRoot, ManifestA>>
  /\ DOMAIN disk0 = {PermRoot, StagedRoot}
  /\ disk0[PermRoot] = File(<<ManifestA, BlobB>>)
  /\ Range(result.referencedFiles) = {PermRoot, ManifestA, BlobB}

----------------------------------------------------------------------------
(* Batches *)

\* the roots are pairwise distinct, so are their permanent names, and no
\* permanent name is the staged name of another root
IndependentRoots ==
  \A i, j \in 1..Len(fileNames) : i # j =>
    /\ fileNames[i] # fileNames[j]
    /\ NewName(fileNames[i], tempFileSuffix) # NewName(fileNames[j], tempFileSuffix)
    /\ NewName(fileNames[i], tempFileSuffix) # fileNames[j]

\* the operations of the current batch that completed without rejecting
OpsSucceeded == opsDone \ opsFailed

\* the commit branch was taken and its rename batch is the current batch
RenamePhase ==
  /\ pc \in {"renaming", "failed"}
  /\ ops # <<>>
  /\ ops[1].kind = "rename"

(* C12: if a rename or delete of a commit, prune or rollback batch fails, the
   call fails with an error, and nothing is compensated: every delete of the
   batch that completed keeps its file deleted, and every rename that completed
   keeps the root's content under its permanent name (for roots that do not
   collide with each other); the operations that failed left their files as
   they were. *)
C12_NoCompensation ==
  /\ opsFailed # {} => pc = "failed" /\ error = "IOError"
  /\ \A i \in OpsSucceeded :
       IF ops[i].kind = "unlink" THEN ops[i].from \notin DOMAIN disk
       ELSE IndependentRoots =>
              /\ ops[i].to \in DOMAIN disk
              /\ disk[ops[i].to] = disk0[ops[i].from]
              /\ ops[i].to # ops[i].from => ops[i].from \notin DOMAIN disk
  /\ \A i \in opsFailed :
       (IndependentRoots /\ ops[i].from \in DOMAIN disk0 /\ RenamePhase) =>
          /\ ops[i].from \in DOMAIN disk
          /\ disk[ops[i].from] = disk0[ops[i].from]

\* a failed commit at rest with one root renamed and the other one still staged
C12_Witness ==
  /\ pc = "failed"
  /\ error = "IOError"
  /\ opsDone = DOMAIN ops
  /\ fileNames = <<StagedRoot, ManifestA>>
  /\ tempFileSuffix = ".tmp"
  /\ OpsSucceeded = {1}
  /\ opsFailed = {2}
  /\ DOMAIN disk = {PermRoot, ManifestA}

(* C13: no rename or delete is issued before the traversal has finished; if a
   manifest cannot be read or parsed at some level, the call fails, returns
   nothing, and the directory is unchanged, under every policy. *)
C13_FailedReadChangesNothing ==
  /\ ~Resolved => ops = <<>> /\ disk = disk0
  /\ error = "ReadError" => pc = "failed"
  /\ Resolved => ~UnparseableWithin(disk0, fileNames, MaxLevel)

\* a read of level 1 failed under the commit policy, the staged root still there
C13_Witness ==
  /\ pc = "failed"
  /\ error = "ReadError"
  /\ saveQueryParam = "ifcomplete"
  /\ Len(stack) = 2
  /\ fileNames = <<PermRoot>>
  /\ tempFileSuffix = ""
  /\ disk = disk0

(* C14: manifest reads are bounded and sequenced: reads are only issued when no
   read is in flight (so no read of a chunk or of a level is started before
   every read of the chunk, or level, before it has completed), and at most 50
   are issued together. *)
C14_ReadsBounded ==
  [][inFlight' > inFlight => inFlight = 0 /\ inFlight' <= ChunkSize]_vars

\* the second chunk of a level of more than 50 manifests is in flight, the first
\* chunk counted
C14_Witness ==
  /\ pc = "reading"
  /\ Len(stack) = 2
  /\ Len(stack[2].fileNames) > ChunkSize
  /\ readFiles = ChunkSize + 1
  /\ inFlight = 1

(* C16, as claimed: no resolver call is made beyond level 10. *)
C16_AsClaimed == call.level <= MaxLevel

(* C16: every call eventually finishes, returning or failing, cyclic reference
   graphs included, provided every issued read, rename and delete settles;
   at most 11 resolver invocations (levels 0 to 10) are ever entered, and the
   one call made beyond them, at level 11, throws at once. *)
C16_Terminates ==
  /\ <>(pc \in {"returned", "failed"})
  /\ [](Len(stack) <= MaxLevel + 1 /\ call.level <= MaxLevel + 1)

\* the call on a cyclic reference graph has finished
C16_Witness ==
  /\ pc = "failed"
  /\ error = "TooDeep"
  /\ Len(stack) = MaxLevel + 1
  /\ fileNames = <<ChainName(0)>>
  /\ CycleReachable(disk0, fileNames)

(* C17: in a commit no orphan is deleted while the rename batch is the current
   batch, the prune batch is only issued when every rename has completed
   without rejecting, and after a rename has rejected no other batch is ever
   issued. *)
C17_PruneAfterRenames ==
  /\ [](RenamePhase =>
          \A n \in DOMAIN disk0 \ (Roots \cup PermNames) :
            n \in DOMAIN disk /\ disk[n] = disk0[n])
  /\ [][(pc = "renaming" /\ pc' = "pruning") =>
          opsDone = DOMAIN ops /\ opsFailed = {}]_vars
  /\ [][(RenamePhase /\ opsFailed # {}) => ops' = ops]_vars

\* a commit whose only rename rejected is at rest and the orphan is still there
C17_Witness ==
  /\ pc = "failed"
  /\ RenamePhase
  /\ opsDone = DOMAIN ops
  /\ opsFailed = {1}
  /\ fileNames = <<StagedRoot>>
  /\ BlobB \in DOMAIN disk
  /\ BlobB \notin referencedFiles

\* the directory a commit leaves when its roots are independent
ExpectedCommitDisk ==
  [n \in ((DOMAIN disk0 \ Roots) \cup PermNames) \cap referencedFiles |->
     IF n \in PermNames
     THEN disk0[CHOOSE r \in Roots : NewName(r, tempFileSuffix) = n]
     ELSE disk0[n]]

\* the directory a rollback leaves
ExpectedRollbackDisk == [n \in DOMAIN disk0 \ Roots |-> disk0[n]]

(* C18: when the roots are pairwise distinct, so are their permanent names, and
   no permanent name is the staged name of another root, a commit or rollback
   that completes without failure leaves a directory and returns a list that are
   functions of the inputs alone, whatever the order in which the renames, or
   deletions, completed. *)
C18_OrderIndependent ==
  (pc = "returned" /\ saveQueryParam \in {"ifcomplete", "no"} /\ IndependentRoots) =>
    /\ disk = IF saveQueryParam = "ifcomplete" /\ result.missingFiles = <<>>
              THEN ExpectedCommitDisk ELSE ExpectedRollbackDisk
    /\ result.missingFiles =
         DeepestFirst(disk0, fileNames, NumLevels(disk0, fileNames) - 1)

\* a commit of two roots has returned: both renamed, one permanent file
\* overwritten, the orphan deleted
C18_Witness ==
  /\ pc = "returned"
  /\ saveQueryParam = "ifcomplete"
  /\ tempFileSuffix = ".tmp"
  /\ fileNames = <<StagedRoot, ManifestA>>
  /\ DOMAIN disk0 = {StagedRoot, PermRoot, ManifestA, BlobB}
  /\ DOMAIN disk = {PermRoot, NewName(ManifestA, ".tmp")}

====
